---- MODULE Spec2Model ----
(***************************************************************************)
(* Model of process_csv (src/app.py): the conversion of a tabular list of  *)
(* payment instructions into the ordered record sequence of a BACS-like    *)
(* batch file and its comma-delimited serialization.                       *)
(*                                                                         *)
(* Text is a sequence of one-character strings, so that quoting and        *)
(* parsing act on characters.  A numeric amount x is held as the integer   *)
(* 8*x (amounts are multiples of 1/8, which binary floating point holds    *)
(* exactly, so float addition and the rounding of the two-decimal format   *)
(* are exact in the model as they are in the program).                     *)
(***************************************************************************)
EXTENDS Integers, Sequences, FiniteSets, TLC

VARIABLES columns, rows, params, today,
          pc, records, idx, amount_val, result, prev

vars == <<columns, rows, params, today, pc, records, idx, amount_val, result, prev>>

\* ------------------------------------------------------------------ bounds
MaxRows == 2

\* ------------------------------------------------------------ text helpers
RECURSIVE Join(_)
Join(ss) == IF ss = <<>> THEN <<>> ELSE Head(ss) \o Join(Tail(ss))

Empty == <<>>

DigitChars == <<"0", "1", "2", "3", "4", "5", "6", "7", "8", "9">>

IsDigit(c) == \E d \in 1..10 : DigitChars[d] = c

DigitVal(c) == (CHOOSE d \in 1..10 : DigitChars[d] = c) - 1

\* str(n) for a natural number n
RECURSIVE Digits(_)
Digits(n) == IF n < 10 THEN <<DigitChars[n + 1]>>
             ELSE Digits(n \div 10) \o <<DigitChars[(n % 10) + 1]>>

\* ------------------------------------------------- amounts: float(), :.2f
Num(e) == [t |-> "num", v |-> e, s |-> <<>>]
Str(s) == [t |-> "str", v |-> 0, s |-> s]
Unbound == [t |-> "unbound", v |-> 0, s |-> <<>>]

RECURSIVE ParseUInt(_, _)
ParseUInt(s, acc) == IF s = <<>> THEN acc
                     ELSE ParseUInt(Tail(s), acc * 10 + DigitVal(Head(s)))

AllDigits(s) == \A i \in 1..Len(s) : IsDigit(s[i])

\* fraction digits scaled to thousandths
Thousandths(f) == IF Len(f) = 0 THEN 0
                  ELSE IF Len(f) = 1 THEN 100 * ParseUInt(f, 0)
                  ELSE IF Len(f) = 2 THEN 10 * ParseUInt(f, 0)
                  ELSE ParseUInt(SubSeq(f, 1, 3), 0)

\* float(text): [sign] digits ['.' digits], at least one digit; anything else
\* raises ValueError.  The value is returned in eighths.
ParseFloat(s) ==
    LET neg  == Len(s) > 0 /\ s[1] = "-"
        body == IF Len(s) > 0 /\ s[1] \in {"-", "+"} THEN Tail(s) ELSE s
        dots == {i \in 1..Len(body) : body[i] = "."}
        dot  == IF dots = {} THEN Len(body) + 1 ELSE CHOOSE i \in dots : TRUE
        ip   == SubSeq(body, 1, dot - 1)
        fp   == SubSeq(body, dot + 1, Len(body))
        ok   == /\ Cardinality(dots) <= 1
                /\ AllDigits(ip) /\ AllDigits(fp)
                /\ Len(ip) + Len(fp) >= 1
        mag  == ((ParseUInt(ip, 0) * 1000 + Thousandths(fp)) * 8) \div 1000
    IN  IF ok THEN [ok |-> TRUE, v |-> IF neg THEN -mag ELSE mag]
        ELSE [ok |-> FALSE, v |-> 0]

\* float(row["amount"]) on a cell: a number converts to itself, text is parsed
ToFloat(cell) == IF cell.t = "num" THEN [ok |-> TRUE, v |-> cell.v]
                 ELSE ParseFloat(cell.s)

\* cents of x = e/8 rounded half to even, as the exact binary value rounds
RoundCents(a) == LET x == a * 100
                     q == x \div 8
                     r == x % 8
                 IN  IF r > 4 \/ (r = 4 /\ q % 2 = 1) THEN q + 1 ELSE q

\* f"{x:.2f}" for the float x = e/8
Format2(e) == LET a == IF e < 0 THEN -e ELSE e
                  c == RoundCents(a)
              IN  (IF e < 0 THEN <<"-">> ELSE <<>>)
                  \o Digits(c \div 100) \o <<".">>
                  \o <<DigitChars[((c % 100) \div 10) + 1], DigitChars[(c % 10) + 1]>>

\* df["amount"].sum(): numbers add, text concatenates, a mix raises TypeError;
\* the empty column sums to 0
RECURSIVE SumCells(_, _)
SumCells(cells, acc) ==
    IF cells = <<>> THEN [ok |-> TRUE, val |-> acc]
    ELSE LET c == Head(cells)
         IN  IF c.t # acc.t THEN [ok |-> FALSE, val |-> acc]
             ELSE IF c.t = "num" THEN SumCells(Tail(cells), Num(acc.v + c.v))
             ELSE SumCells(Tail(cells), Str(acc.s \o c.s))

\* variant: the accumulator starts at zero and the first cell is skipped
SumSkipFirst(cells) == IF cells = <<>> THEN [ok |-> TRUE, val |-> Num(0)]
                       ELSE SumCells(Tail(cells), Num(0))

SumColumn(cells) == IF cells = <<>> THEN [ok |-> TRUE, val |-> Num(0)]
                    ELSE SumCells(Tail(cells), Head(cells))

\* --------------------------------------------------------- literal text
TagVOL == <<"V", "O", "L">>
TagHDR1 == <<"H", "D", "R", "1">>
TagHDR2 == <<"H", "D", "R", "2">>
TagUHL1 == <<"U", "H", "L", "1">>
TagPAY == <<"P", "A", "Y">>
TagCONTRA == <<"C", "O", "N", "T", "R", "A">>
TagEOF1 == <<"E", "O", "F", "1">>
TagEOF2 == <<"E", "O", "F", "2">>
TagUTL1 == <<"U", "T", "L", "1">>
VolSerial == <<"0", "0", "1">>
HSBC == <<"H", "S", "B", "C">>
PaymentBatch == <<"P", "a", "y", "m", "e", "n", "t", " ", "B", "a", "t", "c", "h", " ">>
EndOfFile == <<"E", "n", "d", " ", "o", "f", " ", "F", "i", "l", "e">>
Checksum == <<"C", "h", "e", "c", "k", "s", "u", "m">>
ProcessingComplete == <<"P", "r", "o", "c", "e", "s", "s", "i", "n", "g", " ", "C", "o", "m", "p", "l", "e", "t", "e">>

\* ------------------------------------------------------------ input values
JSmith == <<"J", " ", "S", "m", "i", "t", "h">>
CommaQuoteName == <<"A", ",", "\"", "B">>
Sort1 == <<"1", "1", "-", "2", "2", "-", "3", "3">>
Acct1 == <<"8", "7", "6", "5", "4", "3", "2", "1">>
Ref1 == <<"I", "N", "V", "0", "0", "1">>
Date1 == <<"2", "0", "2", "4", "-", "0", "1", "-", "1", "5">>
ExtraVal == <<"x">>
TextOneAndHalf == <<"1", ".", "5">>
TextABC == <<"a", "b", "c">>
ABCLtd == <<"A", "B", "C", " ", "L", "t", "d">>
DebtorAcct == <<"1", "2", "3", "4", "5", "6", "7", "8">>
Batch001 == <<"0", "0", "1">>
ContraSort == <<"1", "2", "-", "3", "4", "-", "5", "6">>
MultiLineName == <<"L", "\r", "\n", "M">>
DebtorAcct2 == <<"2", "2">>
BatchB2 == <<"B", ",", "2">>
ContraSort2 == <<"6", "5">>
Day1 == <<"2", "0", "2", "6", "-", "1", "1", "-", "0", "1">>
Day2 == <<"2", "0", "2", "6", "-", "1", "1", "-", "0", "2">>

\* numeric amounts in eighths: -0.375, 0.125, 0.375, 150.5
AmountNums == {-3, 1, 3, 1204}

\* amount cells: numbers, text that float() accepts, text it rejects
AmountCells == {Num(e) : e \in AmountNums} \cup {Str(TextOneAndHalf), Str(TextABC)}

NameVals == {JSmith, CommaQuoteName}

required_cols == {"beneficiary_name", "beneficiary_sort_code", "beneficiary_account",
                  "amount", "payment_reference", "processing_date"}

AllCols == required_cols \cup {"extra"}

FullRows == [beneficiary_name : NameVals, beneficiary_sort_code : {Sort1},
             beneficiary_account : {Acct1}, amount : AmountCells,
             payment_reference : {Ref1}, processing_date : {Date1},
             extra : {ExtraVal}]

\* the rows of a dataset whose columns are cols
RowsOver(cols, full) == {[c \in cols |-> r[c]] : r \in full}

Datasets(cols, full, n) == UNION {[1..k -> RowsOver(cols, full)] : k \in 0..n}

Params1 == [debtor_name |-> ABCLtd, debtor_account |-> DebtorAcct,
            batch_id |-> Batch001, contra_sort_code |-> ContraSort]
Params2 == [debtor_name |-> MultiLineName, debtor_account |-> DebtorAcct2,
            batch_id |-> BatchB2, contra_sort_code |-> ContraSort2]

ParamSets == {Params1, Params2}

Days == {Day1, Day2}

\* --------------------------------------------------------- record builders
\* variant: the error names every required column
MissingColsAll(cols) == required_cols

MissingCols(cols) == required_cols \ cols

HasRequired(cols) == required_cols \subseteq cols

VolRecord(day) == <<TagVOL, VolSerial, HSBC, day, Empty, Empty, Empty, Empty>>

\* variant: debtor account and name exchanged
Hdr1Swapped(p, day) ==
    <<TagHDR1, p.debtor_account, p.debtor_name, HSBC, day, Empty, Empty, Empty>>

Hdr1Record(p, day) ==
    <<TagHDR1, p.debtor_name, p.debtor_account, HSBC, day, Empty, Empty, Empty>>

Hdr2Record(p) ==
    <<TagHDR2, PaymentBatch \o p.batch_id, p.batch_id, Empty, Empty, Empty, Empty, Empty>>

Uhl1Record(p) ==
    <<TagUHL1, p.debtor_name, p.debtor_account, Empty, Empty, Empty, Empty, Empty>>

HeaderBlock(p, day) == <<VolRecord(day), Hdr1Record(p, day), Hdr2Record(p), Uhl1Record(p)>>

PayRecord(row, amt) ==
    <<TagPAY, row["beneficiary_name"], row["beneficiary_sort_code"],
      row["beneficiary_account"], Format2(amt), row["payment_reference"],
      row["processing_date"], Empty>>

\* variant: one trailing empty field short
ContraRecordShort(p, total) ==
    <<TagCONTRA, p.debtor_name, p.contra_sort_code, p.debtor_account,
      Format2(total), Empty, Empty>>

ContraRecord(p, total) ==
    <<TagCONTRA, p.debtor_name, p.contra_sort_code, p.debtor_account,
      Format2(total), Empty, Empty, Empty>>

TrailerBlock ==
    << <<TagEOF1, EndOfFile, Empty, Empty, Empty, Empty, Empty, Empty>>,
       <<TagEOF2, Checksum, Empty, Empty, Empty, Empty, Empty, Empty>>,
       <<TagUTL1, ProcessingComplete, Empty, Empty, Empty, Empty, Empty, Empty>> >>

AmountColumn(rs) == [i \in 1..Len(rs) |-> rs[i]["amount"]]

\* ------------------------------------------- csv.writer (excel dialect)
SpecialChars == {",", "\"", "\r", "\n"}

NeedsQuote(f) == \E i \in 1..Len(f) : f[i] \in SpecialChars

\* variant: embedded quote characters are not doubled
NoDoubling(f) == f

RECURSIVE DoubleQuotes(_)
DoubleQuotes(f) == IF f = <<>> THEN <<>>
                   ELSE (IF Head(f) = "\"" THEN <<"\"", "\"">> ELSE <<Head(f)>>)
                        \o DoubleQuotes(Tail(f))

QuoteField(f) == IF NeedsQuote(f) THEN <<"\"">> \o DoubleQuotes(f) \o <<"\"">> ELSE f

RECURSIVE JoinFields(_)
JoinFields(rec) == IF Len(rec) = 0 THEN <<>>
                   ELSE IF Len(rec) = 1 THEN QuoteField(rec[1])
                   ELSE QuoteField(Head(rec)) \o <<",">> \o JoinFields(Tail(rec))

WriteRow(rec) == JoinFields(rec) \o <<"\r", "\n">>

WriteRows(recs) == Join([i \in 1..Len(recs) |-> WriteRow(recs[i])])

\* --------------------------- reading the text back (standard quoting rules)
PState(state, field, rec, recs) ==
    [state |-> state, field |-> field, rec |-> rec, recs |-> recs]

EndField(st, next) == PState(next, <<>>, Append(st.rec, st.field), st.recs)

EndRecord(st, next) == PState(next, <<>>, <<>>, Append(st.recs, Append(st.rec, st.field)))

AddChar(st, c, next) == PState(next, Append(st.field, c), st.rec, st.recs)

StartField(st, c) ==
    IF c = "\r" THEN EndRecord(st, "EAT_CRNL")
    ELSE IF c = "\n" THEN EndRecord(st, "START_RECORD")
    ELSE IF c = "\"" THEN PState("IN_QUOTED_FIELD", st.field, st.rec, st.recs)
    ELSE IF c = "," THEN EndField(st, "START_FIELD")
    ELSE AddChar(st, c, "IN_FIELD")

StartRecord(st, c) ==
    IF c = "\r" THEN PState("EAT_CRNL", <<>>, <<>>, Append(st.recs, <<>>))
    ELSE IF c = "\n" THEN PState("START_RECORD", <<>>, <<>>, Append(st.recs, <<>>))
    ELSE StartField(st, c)

ParseChar(st, c) ==
    CASE st.state = "START_RECORD" -> StartRecord(st, c)
      [] st.state = "EAT_CRNL" ->
            IF c = "\n" THEN PState("START_RECORD", <<>>, <<>>, st.recs)
            ELSE StartRecord(st, c)
      [] st.state = "START_FIELD" -> StartField(st, c)
      [] st.state = "IN_FIELD" ->
            IF c = "\r" THEN EndRecord(st, "EAT_CRNL")
            ELSE IF c = "\n" THEN EndRecord(st, "START_RECORD")
            ELSE IF c = "," THEN EndField(st, "START_FIELD")
            ELSE AddChar(st, c, "IN_FIELD")
      [] st.state = "IN_QUOTED_FIELD" ->
            IF c = "\"" THEN PState("QUOTE_IN_QUOTED_FIELD", st.field, st.rec, st.recs)
            ELSE AddChar(st, c, "IN_QUOTED_FIELD")
      [] st.state = "QUOTE_IN_QUOTED_FIELD" ->
            IF c = "\"" THEN AddChar(st, c, "IN_QUOTED_FIELD")
            ELSE IF c = "," THEN EndField(st, "START_FIELD")
            ELSE IF c = "\r" THEN EndRecord(st, "EAT_CRNL")
            ELSE IF c = "\n" THEN EndRecord(st, "START_RECORD")
            ELSE AddChar(st, c, "IN_FIELD")

\* the reader's state after text[lo..hi], started in st (split in halves,
\* each half's state computed before the next half starts)
RECURSIVE ParseRange(_, _, _, _)
ParseRange(text, lo, hi, st) ==
    IF lo > hi THEN st
    ELSE IF lo = hi THEN ParseChar(st, text[lo])
    ELSE LET mid == (lo + hi) \div 2
         IN  CHOOSE r \in {ParseRange(text, mid + 1, hi, left) :
                              left \in {ParseRange(text, lo, mid, st)}} : TRUE

\* end of input closes an open field and record
ParseEnd(st) == IF st.state \in {"START_RECORD", "EAT_CRNL"} THEN st.recs
                ELSE EndRecord(st, "START_RECORD").recs

ParseCsv(text) ==
    ParseEnd(ParseRange(text, 1, Len(text), PState("START_RECORD", <<>>, <<>>, <<>>)))

\* ------------------------------------------------------------ process_csv
NoResult == [kind |-> "none", exc |-> "", missing |-> {}, text |-> <<>>]

Raised(exc, missing) == [kind |-> "raise", exc |-> exc, missing |-> missing, text |-> <<>>]

Returned(text) == [kind |-> "return", exc |-> "", missing |-> {}, text |-> text]

NoPrev == [set |-> FALSE, columns |-> {}, rows |-> <<>>, params |-> Params1,
           today |-> Day1, result |-> NoResult]

\* variant: amount_val outlives the call (a module-level variable)
KeepAmount(old) == old

\* the value amount_val has when a call begins: a local of the new frame
FreshAmount(old) == Unbound

\* variant: a value already held wins over the row's own amount
AmountCarried(cell, old) == LET f == ToFloat(cell)
                            IN  IF old.t # "unbound" THEN old
                                ELSE IF f.ok THEN Num(f.v) ELSE old

\* the value line 58 formats for a row: the parsed amount, or, when float()
\* raised, whatever amount_val already holds (the handler assigns amount_valu)
AmountAfterTry(cell, old) == LET f == ToFloat(cell)
                             IN  IF f.ok THEN Num(f.v) ELSE old

\* variant: the PAY record is put in front of the list
PrependPay(recs, row, amt) == <<PayRecord(row, amt)>> \o recs

\* records.append of the loop body
AppendPay(recs, row, amt) == Append(recs, PayRecord(row, amt))

Init ==
    /\ columns \in SUBSET AllCols
    /\ rows \in Datasets(columns, FullRows, MaxRows)
    /\ params \in ParamSets
    /\ today \in Days
    /\ pc = "call"
    /\ records = <<>>
    /\ idx = 0
    /\ amount_val = Unbound
    /\ result = NoResult
    /\ prev = NoPrev

\* lines 25-39: the required-columns check, then today and the empty list
Validate ==
    /\ pc = "call"
    /\ IF ~HasRequired(columns)
       THEN /\ result' = Raised("ValueError", MissingCols(columns))
            /\ pc' = "raised"
       ELSE /\ pc' = "header"
            /\ UNCHANGED result
    /\ records' = <<>>
    /\ UNCHANGED <<columns, rows, params, today, idx, amount_val, prev>>

\* lines 42-45
BuildHeader ==
    /\ pc = "header"
    /\ records' = records \o HeaderBlock(params, today)
    /\ idx' = 0
    /\ pc' = "loop"
    /\ UNCHANGED <<columns, rows, params, today, amount_val, result, prev>>

\* lines 48-62: one iteration of the loop over the rows
PayRow ==
    /\ pc = "loop"
    /\ idx < Len(rows)
    /\ LET row == rows[idx + 1]
           amt == AmountAfterTry(row["amount"], amount_val)
       IN  IF amt.t = "unbound"
           THEN /\ result' = Raised("UnboundLocalError", {})
                /\ pc' = "raised"
                /\ UNCHANGED <<records, idx, amount_val>>
           ELSE /\ records' = AppendPay(records, row, amt.v)
                /\ amount_val' = amt
                /\ idx' = idx + 1
                /\ UNCHANGED <<pc, result>>
    /\ UNCHANGED <<columns, rows, params, today, prev>>

\* lines 65-66: the column total and the CONTRA record
Contra ==
    /\ pc = "loop"
    /\ idx = Len(rows)
    /\ LET total_ammount == SumColumn(AmountColumn(rows))
       IN  IF ~total_ammount.ok
           THEN /\ result' = Raised("TypeError", {})
                /\ pc' = "raised"
                /\ UNCHANGED records
           ELSE IF total_ammount.val.t = "str"
           THEN /\ result' = Raised("ValueError", {})
                /\ pc' = "raised"
                /\ UNCHANGED records
           ELSE /\ records' = Append(records, ContraRecord(params, total_ammount.val.v))
                /\ pc' = "trailer"
                /\ UNCHANGED result
    /\ UNCHANGED <<columns, rows, params, today, idx, amount_val, prev>>

\* lines 67-69
Trailer ==
    /\ pc = "trailer"
    /\ records' = records \o TrailerBlock
    /\ pc' = "serialize"
    /\ UNCHANGED <<columns, rows, params, today, idx, amount_val, result, prev>>

\* lines 72-75
Serialize ==
    /\ pc = "serialize"
    /\ result' = Returned(WriteRows(records))
    /\ pc' = "done"
    /\ UNCHANGED <<columns, rows, params, today, records, idx, amount_val, prev>>

Next == Validate \/ BuildHeader \/ PayRow \/ Contra \/ Trailer \/ Serialize

Spec == Init /\ [][Next]_vars

\* ------------------------------------------------- repeated invocations
\* a smaller family of inputs, for behaviours made of several calls
RepeatRows == {r \in FullRows : r.beneficiary_name = JSmith
                                /\ r.amount \in {Num(1), Str(TextABC)}}

RepeatColumns == {AllCols, AllCols \ {"amount"}}

CallRecord == [set |-> TRUE, columns |-> columns, rows |-> rows, params |-> params,
               today |-> today, result |-> result]

InitRepeat ==
    /\ columns \in RepeatColumns
    /\ rows \in Datasets(columns, RepeatRows, MaxRows)
    /\ params = Params1
    /\ today \in Days
    /\ pc = "call"
    /\ records = <<>>
    /\ idx = 0
    /\ amount_val = Unbound
    /\ result = NoResult
    /\ prev = NoPrev

\* lines 7-13 entered again: a new call with its own arguments and locals;
\* prev keeps one earlier call and its outcome for comparison
Call ==
    /\ pc \in {"done", "raised"}
    /\ columns' \in RepeatColumns
    /\ rows' \in Datasets(columns', RepeatRows, MaxRows)
    /\ params' = Params1
    /\ today' \in Days
    /\ prev' \in {prev, CallRecord}
    /\ pc' = "call"
    /\ records' = <<>>
    /\ idx' = 0
    /\ amount_val' = FreshAmount(amount_val)
    /\ result' = NoResult

NextRepeat == Next \/ Call

SpecRepeat == InitRepeat /\ [][NextRepeat]_vars

\* ------------------------------------------------------ auxiliary notions
Tags == {TagVOL, TagHDR1, TagHDR2, TagUHL1, TagPAY, TagCONTRA, TagEOF1, TagEOF2, TagUTL1}

AllRequiredPresent == required_cols \subseteq columns

Parses(i) == ToFloat(rows[i]["amount"]).ok

AllNumeric == \A i \in 1..Len(rows) : rows[i]["amount"].t = "num"

\* text of the shape [-]d+.dd
TwoDecimals(f) ==
    LET g == IF Len(f) > 0 /\ f[1] = "-" THEN Tail(f) ELSE f
    IN  /\ Len(g) >= 4
        /\ g[Len(g) - 2] = "."
        /\ \A k \in 1..Len(g) : k # Len(g) - 2 => IsDigit(g[k])

RECURSIVE SumOfRows(_)
SumOfRows(n) == IF n = 0 THEN 0 ELSE SumOfRows(n - 1) + rows[n]["amount"].v

\* the two-decimal text of the amounts used as inputs, written out
KnownAmountText(cell) ==
    CASE cell = Num(1) -> <<"0", ".", "1", "2">>
      [] cell = Num(3) -> <<"0", ".", "3", "8">>
      [] cell = Num(-3) -> <<"-", "0", ".", "3", "8">>
      [] cell = Num(1204) -> <<"1", "5", "0", ".", "5", "0">>
      [] cell = Str(TextOneAndHalf) -> <<"1", ".", "5", "0">>
      [] OTHER -> <<>>

EmptyFrom(rec, k) == \A j \in k..Len(rec) : rec[j] = <<>>

\* ------------------------------------------------------------------ claims

\* C1: for a dataset lacking a required column, the call fails with the
\* missing-columns error naming exactly required minus present, before any
\* record is appended, and no output text is produced.
C1_MissingColumns ==
    ~AllRequiredPresent =>
        /\ records = <<>>
        /\ pc \in {"call", "raised"}
        /\ result.kind # "return"
        /\ pc = "raised" => /\ result.kind = "raise"
                            /\ result.exc = "ValueError"
                            /\ result.missing = required_cols \ columns

C1_Witness ==
    /\ pc = "raised"
    /\ Len(rows) = 2
    /\ result.missing = {"amount", "processing_date"}
    /\ "extra" \in columns

\* C2: once the record sequence of an N-row dataset is complete it has N + 8
\* records: VOL, HDR1, HDR2, UHL1, then the PAY record of row i at position
\* 4+i in input order, then the single CONTRA, then EOF1, EOF2, UTL1; and a
\* dataset with all required columns and numeric amounts always gets there.
C2_RecordLayout ==
    /\ pc \in {"serialize", "done"} =>
          LET N == Len(rows)
          IN  /\ Len(records) = N + 8
              /\ records[1][1] = TagVOL
              /\ records[2][1] = TagHDR1
              /\ records[3][1] = TagHDR2
              /\ records[4][1] = TagUHL1
              /\ \A i \in 1..N :
                    /\ records[4 + i][1] = TagPAY
                    /\ records[4 + i][2] = rows[i]["beneficiary_name"]
                    /\ records[4 + i][3] = rows[i]["beneficiary_sort_code"]
                    /\ records[4 + i][4] = rows[i]["beneficiary_account"]
                    /\ records[4 + i][6] = rows[i]["payment_reference"]
                    /\ records[4 + i][7] = rows[i]["processing_date"]
              /\ records[5 + N][1] = TagCONTRA
              /\ Cardinality({k \in 1..Len(records) : records[k][1] = TagCONTRA}) = 1
              /\ records[6 + N][1] = TagEOF1
              /\ records[7 + N][1] = TagEOF2
              /\ records[8 + N][1] = TagUTL1
    /\ (AllRequiredPresent /\ AllNumeric) => pc # "raised"

C2_Witness ==
    /\ pc = "done"
    /\ Len(rows) = 2
    /\ rows[1]["beneficiary_name"] # rows[2]["beneficiary_name"]
    /\ Len(records) = 10

\* C3 (as stated): a row whose amount does not parse, at any position, the
\* first included, does not abort the loop and gets a PAY record whose amount
\* is the formatted amount of the most recent earlier row that parsed.
C3_Original ==
    AllRequiredPresent =>
        \A i \in 1..Len(rows) :
            ~Parses(i) =>
                /\ ~(pc = "raised" /\ idx = i - 1)
                /\ idx >= i =>
                      /\ records[4 + i][1] = TagPAY
                      /\ \E j \in 1..(i - 1) :
                            /\ Parses(j)
                            /\ \A k \in (j + 1)..(i - 1) : ~Parses(k)
                            /\ records[4 + i][5] = Format2(ToFloat(rows[j]["amount"]).v)

\* C4 (as stated): with all six required columns present the call raises
\* nothing, whatever the amount values are.
C4_Original == AllRequiredPresent => pc # "raised"

\* C5: in every output the CONTRA amount (index 4) is the sum of the rows'
\* amounts formatted with two decimals; one row of 150.5 gives PAY "150.50"
\* and CONTRA "150.50".
C5_ContraTotal ==
    pc \in {"trailer", "serialize", "done"} =>
        LET N == Len(rows)
            contra == records[5 + N]
        IN  /\ AllNumeric
            /\ contra[1] = TagCONTRA
            /\ contra[5] = Format2(SumOfRows(N))
            /\ TwoDecimals(contra[5])
            /\ (N = 1 /\ rows[1]["amount"] = Num(1204)) =>
                  /\ records[5][5] = <<"1", "5", "0", ".", "5", "0">>
                  /\ contra[5] = <<"1", "5", "0", ".", "5", "0">>
            /\ (N = 2 /\ rows[1]["amount"] = Num(1) /\ rows[2]["amount"] = Num(1)) =>
                  contra[5] = <<"0", ".", "2", "5">>
            /\ (N = 2 /\ rows[1]["amount"] = Num(-3) /\ rows[2]["amount"] = Num(1)) =>
                  contra[5] = <<"-", "0", ".", "2", "5">>

C5_Witness ==
    /\ pc = "done"
    /\ Len(rows) = 2
    /\ rows[1]["amount"] = Num(1)
    /\ rows[2]["amount"] = Num(1)
    /\ records[5][5] = <<"0", ".", "1", "2">>

\* C6: every record appended has exactly 8 fields, the first a record tag,
\* the unused trailing positions empty; every serialized line has 8 fields.
C6_EightFields ==
    /\ \A i \in 1..Len(records) :
          LET rec == records[i]
          IN  /\ Len(rec) = 8
              /\ rec[1] \in Tags
              /\ rec[1] = TagVOL => EmptyFrom(rec, 5)
              /\ rec[1] = TagHDR1 => EmptyFrom(rec, 6)
              /\ rec[1] \in {TagHDR2, TagUHL1} => EmptyFrom(rec, 4)
              /\ rec[1] = TagPAY => EmptyFrom(rec, 8)
              /\ rec[1] = TagCONTRA => EmptyFrom(rec, 6)
              /\ rec[1] \in {TagEOF1, TagEOF2, TagUTL1} => EmptyFrom(rec, 3)
    /\ pc = "done" =>
          LET lines == ParseCsv(result.text)
          IN  /\ Len(lines) = Len(records)
              /\ \A i \in 1..Len(lines) : Len(lines[i]) = 8

C6_Witness ==
    /\ pc = "done"
    /\ Len(rows) = 2
    /\ params = Params2
    /\ Len(ParseCsv(result.text)) = 10

\* C7 (as stated): after the tag, VOL carries "HSBC" then issue_date and
\* then only empty fields; HDR1, HDR2, UHL1 as listed.
C7_Original ==
    Len(records) >= 4 =>
        /\ records[1] = <<TagVOL, HSBC, today, <<>>, <<>>, <<>>, <<>>, <<>> >>
        /\ records[2] = <<TagHDR1, params.debtor_name, params.debtor_account, HSBC,
                          today, <<>>, <<>>, <<>> >>
        /\ records[3] = <<TagHDR2, PaymentBatch \o params.batch_id, params.batch_id,
                          <<>>, <<>>, <<>>, <<>>, <<>> >>
        /\ records[4] = <<TagUHL1, params.debtor_name, params.debtor_account,
                          <<>>, <<>>, <<>>, <<>>, <<>> >>

\* C7 (amended): the header block depends on the parameters and the issue
\* date only; VOL carries the fixed serial "001", then "HSBC", then
\* issue_date, then four empty fields; HDR1, HDR2, UHL1 as listed.
C7_Header ==
    /\ pc \in {"loop", "trailer", "serialize", "done"} => Len(records) >= 4
    /\ Len(records) >= 4 =>
        /\ records[1] = << <<"V", "O", "L">>, <<"0", "0", "1">>, <<"H", "S", "B", "C">>,
                           today, <<>>, <<>>, <<>>, <<>> >>
        /\ records[2] = << <<"H", "D", "R", "1">>, params.debtor_name,
                           params.debtor_account, <<"H", "S", "B", "C">>,
                           today, <<>>, <<>>, <<>> >>
        /\ records[3] = << <<"H", "D", "R", "2">>, PaymentBatch \o params.batch_id,
                           params.batch_id, <<>>, <<>>, <<>>, <<>>, <<>> >>
        /\ records[4] = << <<"U", "H", "L", "1">>, params.debtor_name,
                           params.debtor_account, <<>>, <<>>, <<>>, <<>>, <<>> >>

C7_Witness ==
    /\ pc = "done"
    /\ params = Params2
    /\ today = Day2
    /\ Len(rows) = 1
    /\ records[1][2] = VolSerial

\* C8: parsing the serialized text with the standard quoting rules gives
\* back the record sequence, field for field, one record per logical line,
\* also when fields hold commas, double quotes or line breaks.
C8_RoundTrip == pc = "done" => ParseCsv(result.text) = records

C8_Witness ==
    /\ pc = "done"
    /\ params = Params2
    /\ Len(rows) = 2
    /\ rows[2]["beneficiary_name"] = CommaQuoteName
    /\ ParseCsv(result.text)[6][2] = CommaQuoteName
    /\ ParseCsv(result.text)[2][2] = MultiLineName

\* C9: a call with the same dataset, parameters and issue date as an earlier
\* call ends the same way with the same text, whatever calls ran in between.
C9_Deterministic ==
    ( /\ prev.set
      /\ pc \in {"done", "raised"}
      /\ prev.columns = columns
      /\ prev.rows = rows
      /\ prev.params = params
      /\ prev.today = today ) => result = prev.result

C9_Witness ==
    /\ prev.set
    /\ pc = "raised"
    /\ prev.columns = columns
    /\ prev.rows = rows
    /\ prev.today = today
    /\ Len(rows) = 2
    /\ result.exc = "UnboundLocalError"
    /\ amount_val = Unbound

\* C10: the PAY record of a row whose amount parses is "PAY", the row's
\* name, sort code, account, its own amount with two decimals, reference,
\* date and one empty field, whatever the other rows and other columns are.
C10_PayRecord ==
    \A i \in 1..Len(rows) :
        (AllRequiredPresent /\ 4 + i <= Len(records) /\ Parses(i)) =>
            /\ records[4 + i] = <<TagPAY, rows[i]["beneficiary_name"],
                                  rows[i]["beneficiary_sort_code"],
                                  rows[i]["beneficiary_account"],
                                  KnownAmountText(rows[i]["amount"]),
                                  rows[i]["payment_reference"],
                                  rows[i]["processing_date"], <<>> >>
            /\ TwoDecimals(records[4 + i][5])

C10_Witness ==
    /\ pc = "done"
    /\ "extra" \in columns
    /\ Len(rows) = 2
    /\ rows[1]["amount"] = Num(3)
    /\ rows[2]["amount"] = Num(1204)
    /\ records[6][5] = <<"1", "5", "0", ".", "5", "0">>

====
